---- MODULE Spec2Model ----
(***************************************************************************)
(* Entity resolution and merging in astrocats.                             *)
(*                                                                         *)
(* Two programs of the repository are modelled side by side:               *)
(*   - scripts/import-external.py: the global `events` dictionary with     *)
(*     add_event / add_alias (specification SpecScript);                   *)
(*   - astrocats/catalog/catalog.py: the Catalog with its `entries`        *)
(*     dictionary, the `aliases` reverse index, the entry files on disk,   *)
(*     add_entry, new_entry, journal_entries and merge_duplicates          *)
(*     (specification Spec).                                               *)
(***************************************************************************)
EXTENDS Integers, Sequences, FiniteSets, TLC

\* ------------------------------------------------------------------ bounds
MaxRows == 3

\* add_quanta calls the tasks make for one event.
MaxCalls == 3

\* ------------------------------------------------------------------- names
\* Entry names are Python strings; they are written here as TLA+ strings and
\* NameChars gives the characters of each, for startswith() and sorted().
Names == {"SNa", "SNb", "SNc", "x"}

\* The names the script's tasks pass to add_event and add_alias.
ScriptNames == {"SNa", "SNb", "x"}

NameChars(n) ==
    CASE n = "SNa" -> <<"S", "N", "a">>
      [] n = "SNb" -> <<"S", "N", "b">>
      [] n = "SNc" -> <<"S", "N", "c">>
      [] n = "SNd" -> <<"S", "N", "d">>
      [] n = "x"   -> <<"x">>
      [] n = "y"   -> <<"y">>

\* Code point of a character (Python compares strings by code point).
Ord(c) ==
    CASE c = "N" -> 78
      [] c = "S" -> 83
      [] c = "a" -> 97
      [] c = "b" -> 98
      [] c = "c" -> 99
      [] c = "d" -> 100
      [] c = "x" -> 120
      [] c = "y" -> 121

Range(s) == {s[i] : i \in DOMAIN s}

\* str.startswith(prefix), prefix a sequence of characters.
StartsWith(n, prefix) ==
    /\ Len(prefix) <= Len(NameChars(n))
    /\ \A i \in 1..Len(prefix) : NameChars(n)[i] = prefix[i]

\* Python's string order: a < b.
RECURSIVE SeqLess(_, _)
SeqLess(a, b) ==
    IF Len(a) = 0 THEN Len(b) > 0
    ELSE IF Len(b) = 0 THEN FALSE
    ELSE IF Ord(Head(a)) # Ord(Head(b)) THEN Ord(Head(a)) < Ord(Head(b))
    ELSE SeqLess(Tail(a), Tail(b))

StrLess(a, b) == SeqLess(NameChars(a), NameChars(b))

\* sorted(S) for a set of names.
RECURSIVE Sorted(_)
Sorted(S) ==
    IF S = {} THEN <<>>
    ELSE LET m == CHOOSE x \in S : \A y \in S \ {x} : StrLess(x, y)
         IN  <<m>> \o Sorted(S \ {m})

VARIABLES
    \* scripts/import-external.py
    events,     \* the `events` OrderedDict: a sequence of [name, aliases]
    sop,        \* the last script function called
    sarg,       \* its argument
    sret,       \* its return value
    foreign,    \* an add_alias call has registered a name that another
                \* event already held
    \* astrocats/catalog/catalog.py
    entries,        \* Catalog.entries: an OrderedDict, a sequence of entries
    aliases,        \* Catalog.aliases: the reverse index, alias -> entry name
    files,          \* the entry files on disk: entry name -> document
    write_entries,  \* args.write_entries
    pc,             \* "idle", or the place merge_duplicates has reached
    keys,           \* merge_duplicates: the work list `keys`
    n1,             \* merge_duplicates: the index `n1`
    inner,          \* merge_duplicates: what is left of keys[n1 + 1:]
    allnames1,      \* merge_duplicates: the set `allnames1`
    rows,           \* number of rows the import tasks have ingested
    op,             \* the last Catalog operation
    arg,            \* the name it was called with
    ret,            \* what add_entry returned in it
    mrg,            \* what the last pass through the merge body did
    settled,        \* <<the names and alias sets that the last
                    \* merge_duplicates that returned has left, whether it
                    \* had an entry for every entry file, whether a new
                    \* process has started since, how many keys it had
                    \* appended>>, <<>> before it and once a row came after
    \* scripts/import-external.py, one event: events[name]
    evsources,  \* events[name]['sources']: a sequence of citations
    gop,        \* "get_source" once get_source has been called
    garg,       \* the arguments of the last get_source call
    gret,       \* what it returned, or "raised"
    evquanta,   \* events[name][quanta] for each quanta: a sequence of records
    qop,        \* the last step on the event: "add_quanta", "finalize", ...
    qarg,       \* the arguments of that call
    qret,       \* how it ended: "returned" or "raised"
    qprev,      \* events[name][quanta], for each quanta, before that call
    calls,      \* number of calls the tasks have made for the event
    evphot,     \* events[name]['photometry']: a sequence of points
    evspectra,  \* events[name]['spectra']: a sequence of spectra
    evattr,     \* the plain keys of events[name]: "" for a key that is absent
    evkeys,     \* the keys of events[name] in the order of the OrderedDict
    firstmax,   \* the `if dofirstmax:` pass has gone over the event
    pprev,      \* events[name]['photometry'] before the last step
    aprev       \* the plain keys before the last step

svars == <<events, sop, sarg, sret, foreign>>

cvars == <<entries, aliases, files, write_entries, pc, keys, n1, inner,
           allnames1, rows, op, arg, ret, mrg, settled>>

gvars == <<evsources, gop, garg, gret>>

qvars == <<evquanta, qop, qarg, qret, qprev, calls>>

pvars == <<evphot, evspectra, evattr, evkeys, firstmax, pprev, aprev>>

vars == <<events, sop, sarg, sret, foreign, entries, aliases, files,
          write_entries, pc, keys, n1, inner, allnames1, rows, op, arg, ret,
          mrg, settled, evsources, gop, garg, gret, evquanta, qop, qarg, qret,
          qprev, calls, evphot, evspectra, evattr, evkeys, firstmax, pprev,
          aprev>>

None == "None"

\* =================================================================== script
EventNames(ev) == {ev[i].name : i \in DOMAIN ev}

EventIndex(ev, name) == CHOOSE i \in DOMAIN ev : ev[i].name = name

\* events[name]['aliases']; a missing 'aliases' key is the empty sequence.
EventAliases(ev, name) == ev[EventIndex(ev, name)].aliases

\* add_alias(name, alias): append the alias unless the list holds it.
add_alias(ev, name, alias) ==
    LET i == EventIndex(ev, name) IN
    IF ev[i].aliases # <<>>
    THEN IF alias \notin Range(ev[i].aliases)
         THEN [ev EXCEPT ![i].aliases = Append(@, alias)]
         ELSE ev
    ELSE [ev EXCEPT ![i].aliases = <<alias>>]

\* The events, in dictionary order, that hold `name` among two or more aliases.
AliasMatches(ev, name) ==
    {i \in DOMAIN ev : Len(ev[i].aliases) > 1 /\ name \in Range(ev[i].aliases)}

\* add_event without the scan of the aliases.
add_event_noscan(ev, name) ==
    IF name \notin EventNames(ev)
    THEN [events |-> add_alias(Append(ev, [name |-> name, aliases |-> <<>>]),
                               name, name),
          ret |-> name]
    ELSE [events |-> ev, ret |-> name]

\* add_event(name): the name of the event found or created, and the new
\* dictionary.
add_event(ev, name) ==
    IF name \notin EventNames(ev)
    THEN IF AliasMatches(ev, name) # {}
         THEN LET i == CHOOSE j \in AliasMatches(ev, name) :
                           \A k \in AliasMatches(ev, name) : j <= k
              IN  [events |-> ev, ret |-> ev[i].name]
         ELSE [events |-> add_alias(Append(ev, [name |-> name,
                                                 aliases |-> <<>>]),
                                    name, name),
               ret |-> name]
    ELSE [events |-> ev, ret |-> name]

\* ==================================================================== Entry
\* An entry is [name, stub, sources, items, errors]:
\*   sources: a sequence of [name, alias], `name` the identity of the
\*            reference and `alias` the citation number;
\*   items:   the sourced items in dictionary order, each [key, value, source,
\*            sourced]: `source` the citation numbers of its comma-joined
\*            'source' string, `sourced` whether the item has a 'source' key;
\*   errors:  the error notes.
Refs == {"TNS", "R1"}

ItemKeys == {"alias", "claimedtype", "photometry", "spectra"}

Item(key, value, source) ==
    [key |-> key, value |-> value, source |-> source, sourced |-> TRUE]

\* Entry(catalog, name)
NewEntryObj(name) ==
    [name |-> name, stub |-> FALSE, sources |-> <<>>, items |-> <<>>,
     errors |-> <<>>]

ItemsOf(e, key) == SelectSeq(e.items, LAMBDA it : it.key = key)

\* Entry.get_aliases(includename)
get_aliases(e, includename) ==
    LET al == ItemsOf(e, "alias")
        vals == [i \in 1..Len(al) |-> al[i].value]
    IN  IF includename /\ e.name \notin Range(vals)
        THEN <<e.name>> \o vals
        ELSE vals

\* Entry.extra_aliases()
extra_aliases(e) == <<>>

\* Entry.priority_prefixes(): the authoritative name prefixes.
priority_prefixes == {<<"S", "N">>}

\* Entry.add_source(name=ref): the citation number of the reference, which is
\* added with the next free number unless the entry has it already.
add_source(e, ref) ==
    LET have == {i \in DOMAIN e.sources : e.sources[i].name = ref} IN
    IF have # {}
    THEN [entry |-> e,
          alias |-> e.sources[CHOOSE i \in have : \A j \in have : i <= j].alias]
    ELSE [entry |-> [e EXCEPT !.sources =
                        Append(@, [name |-> ref,
                                   alias |-> Len(e.sources) + 1])],
          alias |-> Len(e.sources) + 1]

\* uniq_cdl(values): the values without repetitions, first occurrences kept.
RECURSIVE uniq_cdl(_)
uniq_cdl(s) ==
    IF s = <<>> THEN <<>>
    ELSE LET r == uniq_cdl(SubSeq(s, 1, Len(s) - 1))
             x == s[Len(s)]
         IN  IF x \in Range(r) THEN r ELSE Append(r, x)

\* Entry.add_quantity(key, value, source): a value the entry has under the key
\* only gains the sources; any other value is appended.
add_quantity(e, key, value, source) ==
    LET have == {i \in DOMAIN e.items :
                    e.items[i].key = key /\ e.items[i].value = value}
    IN  IF have # {}
        THEN LET i == CHOOSE k \in have : \A j \in have : k <= j
             IN  [e EXCEPT !.items[i].source = uniq_cdl(@ \o source),
                           !.items[i].sourced = TRUE]
        ELSE [e EXCEPT !.items = Append(@, Item(key, value, source))]

\* Entry.add_photometry(**item): a point the entry has already is not added.
add_photometry(e, value, source) ==
    IF \E i \in DOMAIN e.items :
           e.items[i].key = "photometry" /\ e.items[i].value = value
    THEN e
    ELSE [e EXCEPT !.items = Append(@, Item("photometry", value, source))]

\* Entry.add_spectrum(**item)
add_spectrum(e, value, source) ==
    [e EXCEPT !.items = Append(@, Item("spectra", value, source))]

\* Entry.get_stub(): the name and the aliases, nothing else.
get_stub(e) ==
    [name |-> e.name, stub |-> TRUE, sources |-> <<>>,
     items |-> ItemsOf(e, "alias"), errors |-> <<>>]

\* The document Entry.save() writes.
DocOf(e) == [sources |-> e.sources, items |-> e.items, errors |-> e.errors]

\* The reverse index with `alias` pointing to the entry `name`.
IndexPut(index, alias, name) ==
    [a \in DOMAIN index \cup {alias} |->
        IF a = alias THEN name ELSE index[a]]

\* The reverse index after an entry with these alias values was read.
RECURSIVE IndexAll(_, _, _)
IndexAll(index, vals, name) ==
    IF vals = <<>> THEN index
    ELSE IndexAll(IndexPut(index, Head(vals), name), Tail(vals), name)

\* Entry.init_from_file(catalog, name=name): the entry read from its file (its
\* aliases enter the reverse index), or nothing when there is no file.
init_from_file(fs, index, name) ==
    IF name \in DOMAIN fs
    THEN LET e == [name |-> name, stub |-> FALSE,
                   sources |-> fs[name].sources, items |-> fs[name].items,
                   errors |-> fs[name].errors]
         IN  [found |-> TRUE, entry |-> e,
              aliases |-> IndexAll(index, get_aliases(e, FALSE), name)]
    ELSE [found |-> FALSE, entry |-> NewEntryObj(name), aliases |-> index]

\* ================================================================== Catalog
\* The state of a Catalog is cs = [entries, aliases, files].

EntryNames(E) == {E[i].name : i \in DOMAIN E}

EntryIdx(E, name) == CHOOSE i \in DOMAIN E : E[i].name = name

GetEntry(E, name) == E[EntryIdx(E, name)]

\* The assignment to self.entries left out.
PutNothing(E, e) == E

\* self.entries[e.name] = e: a key the dictionary has keeps its place.
PutEntry(E, e) ==
    IF e.name \in EntryNames(E)
    THEN [E EXCEPT ![EntryIdx(E, e.name)] = e]
    ELSE Append(E, e)

\* del self.entries[name]
DelEntry(E, name) == SelectSeq(E, LAMBDA e : e.name # name)

\* Catalog._delete_entry_file(entry=...)
delete_entry_file(fs, name) ==
    IF write_entries
    THEN [n \in DOMAIN fs \ {name} |-> fs[n]]
    ELSE fs

\* find_entry_name_of_alias without the lookup in the index.
FindsNoAlias(cs, alias) == None

\* find_entry_name_of_alias answering from the index alone.
FindsIndexed(cs, alias) ==
    IF alias \in DOMAIN cs.aliases THEN cs.aliases[alias] ELSE None

\* Catalog.find_entry_name_of_alias(alias)
find_entry_name_of_alias(cs, alias) ==
    IF alias \in DOMAIN cs.aliases
    THEN LET name == cs.aliases[alias] IN
         IF name \in EntryNames(cs.entries)
         THEN name
         ELSE LET hits == {i \in DOMAIN cs.entries :
                              alias \in Range(get_aliases(cs.entries[i],
                                                          FALSE))}
              IN  IF hits # {}
                  THEN cs.entries[CHOOSE i \in hits :
                                      \A j \in hits : i <= j].name
                  ELSE None
    ELSE None

\* Catalog.load_entry_from_name(name, delete)
load_entry_from_name(cs, name, delete) ==
    LET ld == init_from_file(cs.files, cs.aliases, name) IN
    IF ld.found
    THEN [cs |-> [entries |-> PutEntry(cs.entries, ld.entry),
                  aliases |-> ld.aliases,
                  files |-> IF delete
                            THEN delete_entry_file(cs.files, name)
                            ELSE cs.files],
          ret |-> name]
    ELSE [cs |-> cs, ret |-> None]

\* Catalog.add_entry(name), load and delete left at their defaults (True).
add_entry(cs, name) ==
    LET newname == name
        full == /\ newname \in EntryNames(cs.entries)
                /\ ~GetEntry(cs.entries, newname).stub
        match_name == find_entry_name_of_alias(cs, newname)
        target == IF match_name # None THEN match_name ELSE newname
        ld == load_entry_from_name(cs, target, TRUE)
    IN  IF full THEN [cs |-> cs, ret |-> newname]
        ELSE IF ld.ret # None THEN ld
        ELSE IF match_name # None THEN [cs |-> cs, ret |-> match_name]
        ELSE [cs |-> [cs EXCEPT !.entries = PutEntry(@, NewEntryObj(target))],
              ret |-> target]

\* entry.add_source(...) and entry.add_quantity(key, value, source) on the
\* entry `name` of the catalog; a new alias enters the reverse index.
AddSourced(cs, name, ref, key, value) ==
    LET e == GetEntry(cs.entries, name)
        s == add_source(e, ref)
        isnew == value \notin Range(get_aliases(e, FALSE))
        e2 == add_quantity(s.entry, key, value, <<s.alias>>)
    IN  [cs EXCEPT !.entries = PutEntry(@, e2),
                   !.aliases = IF key = "alias" /\ isnew
                               THEN IndexPut(@, value, name)
                               ELSE @]

\* Catalog.new_entry(name, srcname=ref)
new_entry(cs, name, ref) ==
    LET r == add_entry(cs, name) IN
    [cs |-> AddSourced(r.cs, r.ret, ref, "alias", name), ret |-> r.ret]

\* The alias -> reference table `newsourcealiases` of copy_entry_to_entry; of
\* two sources with one alias the later one stays.
NewSourceAliases(e) ==
    [a \in {e.sources[i].alias : i \in DOMAIN e.sources} |->
        LET at == {i \in DOMAIN e.sources : e.sources[i].alias = a}
        IN  e.sources[CHOOSE i \in at : \A j \in at : j <= i].name]

\* `for key in fromentry: for item in fromentry[key]`: the items key by key,
\* the keys in the order in which the entry got them.
RECURSIVE KeyOrder(_)
KeyOrder(items) ==
    IF items = <<>> THEN <<>>
    ELSE LET r == KeyOrder(SubSeq(items, 1, Len(items) - 1))
             k == items[Len(items)].key
         IN  IF k \in Range(r) THEN r ELSE Append(r, k)

RECURSIVE ByKey(_, _)
ByKey(e, ks) ==
    IF ks = <<>> THEN <<>>
    ELSE ItemsOf(e, Head(ks)) \o ByKey(e, Tail(ks))

GroupedItems(e) == ByKey(e, KeyOrder(e.items))

\* The aliases of item['source'] kept as the entry copied from has them.
RemapVerbatim(sids, nsa, dest) ==
    IF \A i \in DOMAIN sids : sids[i] \in DOMAIN nsa
    THEN [dest |-> dest, nsid |-> sids, raised |-> FALSE]
    ELSE [dest |-> dest, nsid |-> <<>>, raised |-> TRUE]

\* An alias the entry copied from has no source for is passed over.
RemapSkipsUnknown(sids, nsa, dest) ==
    RemapVerbatim(SelectSeq(sids, LAMBDA sid : sid \in DOMAIN nsa), nsa, dest)

\* The loop over item['source'].split(','): each alias of the loser becomes
\* the alias destentry.add_source gives its reference; an alias the loser's
\* sources do not have raises ValueError.
RECURSIVE RemapSources(_, _, _)
RemapSources(sids, nsa, dest) ==
    IF sids = <<>>
    THEN [dest |-> dest, nsid |-> <<>>, raised |-> FALSE]
    ELSE IF Head(sids) \in DOMAIN nsa
    THEN LET s == add_source(dest, nsa[Head(sids)])
             rest == RemapSources(Tail(sids), nsa, s.entry)
         IN  [dest |-> rest.dest, nsid |-> <<s.alias>> \o rest.nsid,
              raised |-> rest.raised]
    ELSE [dest |-> dest, nsid |-> <<>>, raised |-> TRUE]

\* The `if 'source' not in item` test of copy_entry_to_entry.
HasNoSource(item) == ~item.sourced

\* The dispatch with no item added.
CopyItemSkips(item, source, dest, index) ==
    [dest |-> dest, aliases |-> index]

\* The dispatch at the end of the item loop of copy_entry_to_entry.
CopyItem(item, source, dest, index) ==
    IF item.key = "photometry"
    THEN [dest |-> add_photometry(dest, item.value, source),
          aliases |-> index]
    ELSE IF item.key = "spectra"
    THEN [dest |-> add_spectrum(dest, item.value, source), aliases |-> index]
    ELSE [dest |-> add_quantity(dest, item.key, item.value, source),
          aliases |-> IF /\ item.key = "alias"
                         /\ item.value \notin Range(get_aliases(dest, FALSE))
                      THEN IndexPut(index, item.value, dest.name)
                      ELSE index]

\* The item loop of copy_entry_to_entry: [dest, aliases, raised].
RECURSIVE CopyItems(_, _, _, _)
CopyItems(items, nsa, dest, index) ==
    IF items = <<>>
    THEN [dest |-> dest, aliases |-> index, raised |-> FALSE]
    ELSE LET item == Head(items) IN
         IF HasNoSource(item)
         THEN [dest |-> dest, aliases |-> index, raised |-> TRUE]
         ELSE \* ''.split(',') is [''], which is no alias
              LET rm == IF item.source = <<>>
                        THEN [dest |-> dest, nsid |-> <<>>, raised |-> TRUE]
                        ELSE RemapSources(item.source, nsa, dest)
              IN  IF rm.raised
                  THEN [dest |-> rm.dest, aliases |-> index, raised |-> TRUE]
                  ELSE LET c == CopyItem(item, uniq_cdl(rm.nsid), rm.dest,
                                         index)
                       IN  CopyItems(Tail(items), nsa, c.dest, c.aliases)

\* Catalog.copy_entry_to_entry(fromentry, destentry)
copy_entry_to_entry(fromentry, destentry, index) ==
    CopyItems(GroupedItems(fromentry), NewSourceAliases(fromentry),
              [destentry EXCEPT !.errors = @ \o fromentry.errors], index)

\* journal_entries without the save: the entries become stubs, no file is
\* written.
JournalClearsOnly(cs) ==
    [cs EXCEPT !.entries = [i \in DOMAIN cs.entries |->
                                get_stub(cs.entries[i])]]

\* Catalog.journal_entries(), every argument at its default: each entry that
\* is no stub is saved when args.write_entries is set, and becomes a stub.
journal_entries(cs) ==
    LET skip(e) == write_entries /\ e.stub
        saved == IF write_entries
                 THEN {cs.entries[i].name : i \in
                           {j \in DOMAIN cs.entries : ~cs.entries[j].stub}}
                 ELSE {}
    IN  [cs EXCEPT
            !.entries = [i \in DOMAIN cs.entries |->
                            IF skip(cs.entries[i]) THEN cs.entries[i]
                            ELSE get_stub(cs.entries[i])],
            !.files = [n \in DOMAIN cs.files \cup saved |->
                          IF n \in saved
                          THEN DocOf(GetEntry(cs.entries, n))
                          ELSE cs.files[n]]]

\* Catalog.load_stubs(): a stub for every entry file.
RECURSIVE LoadStubs(_, _)
LoadStubs(cs, names) ==
    IF names = <<>> THEN cs
    ELSE LET ld == init_from_file(cs.files, cs.aliases, Head(names)) IN
         LoadStubs([cs EXCEPT !.entries = PutEntry(@, get_stub(ld.entry)),
                              !.aliases = ld.aliases],
                   Tail(names))

load_stubs(cs) == LoadStubs(cs, Sorted(DOMAIN cs.files))

\* set(entry.get_aliases() + entry.extra_aliases())
AllNames(e) == Range(get_aliases(e, TRUE)) \cup Range(extra_aliases(e))

\* The count of the names that start with a priority prefix.
Priority(allnames) ==
    Cardinality({an \in allnames :
                    \E p \in priority_prefixes : StartsWith(an, p)})

NoEntry == NewEntryObj(None)

NoMerge ==
    [kind |-> "none", name1 |-> None, name2 |-> None, from |-> None,
     dest |-> None, fromE |-> NoEntry, destE |-> NoEntry, result |-> NoEntry,
     files0 |-> <<>>]

\* merge_duplicates, `if priority1 > priority2`: the entry that is copied
\* from and deleted.
MergeFrom(name1, name2, p1, p2) == IF p1 > p2 THEN name2 ELSE name1

\* The entry copied from is not deleted.
MergeKeepsLoser(E, name) == E

\* merge_duplicates, `del self.entries[name]` after the copy.
MergeDelete(E, name) == DelEntry(E, name)

\* The work list without the entry copied into.
KeysNotExtended(ks, dest) == ks

\* The entry copied into is appended twice.
KeysAppendedTwice(ks, dest) == Append(Append(ks, dest), dest)

\* merge_duplicates, `keys.append(name1)` / `keys.append(name2)`.
KeysAfterMerge(ks, dest) == Append(ks, dest)

\* Only name2 is looked up before the aliases are compared.
SkipPairName2Only(E, name1, name2) ==
    name1 = name2 \/ name2 \notin EntryNames(E)

\* merge_duplicates, the three `continue` tests of the inner loop.
SkipPair(E, name1, name2) ==
    \/ name1 = name2
    \/ name1 \notin EntryNames(E)
    \/ name2 \notin EntryNames(E)

\* merge_duplicates: the body of `for name2 in keys[n1 + 1:]` for one name2.
\* The result is [cs, keys, raised, mrg].
merge_pair(cs, ks, an1, name1, name2) ==
    LET out(c, k, r, m) == [cs |-> c, keys |-> k, raised |-> r, mrg |-> m]
        rec(kind) == [NoMerge EXCEPT !.kind = kind, !.name1 = name1,
                                     !.name2 = name2, !.files0 = cs.files]
    IN
    IF SkipPair(cs.entries, name1, name2)
    THEN out(cs, ks, FALSE, rec("skipped"))
    ELSE
    LET an2 == AllNames(GetEntry(cs.entries, name2)) IN
    IF an1 \cap an2 = {}
    THEN out(cs, ks, FALSE, rec("distinct"))
    ELSE
    LET load1 == init_from_file(cs.files, cs.aliases, name1)
        load2 == init_from_file(cs.files, load1.aliases, name2)
    IN
    IF load1.found /\ load2.found
    THEN LET fs == delete_entry_file(delete_entry_file(cs.files, name1),
                                     name2)
             E1 == PutEntry(PutEntry(cs.entries, load1.entry), load2.entry)
             from == MergeFrom(name1, name2, Priority(an1), Priority(an2))
             dest == IF from = name1 THEN name2 ELSE name1
             cp == copy_entry_to_entry(GetEntry(E1, from), GetEntry(E1, dest),
                                       load2.aliases)
             m == [rec("merged") EXCEPT !.from = from, !.dest = dest,
                                        !.fromE = GetEntry(E1, from),
                                        !.destE = GetEntry(E1, dest),
                                        !.result = cp.dest]
         IN  IF cp.raised
             THEN out([entries |-> PutEntry(E1, cp.dest),
                       aliases |-> cp.aliases, files |-> fs],
                      ks, TRUE, [m EXCEPT !.kind = "raised"])
             ELSE out(journal_entries(
                          [entries |-> MergeDelete(PutEntry(E1, cp.dest),
                                                   from),
                           aliases |-> cp.aliases, files |-> fs]),
                      KeysAfterMerge(ks, dest), FALSE, m)
    ELSE out(journal_entries([cs EXCEPT !.aliases = load2.aliases]),
             ks, FALSE, rec("gone"))

\* ------------------------------------------------------------ entry files
SrcList(refs) == [i \in DOMAIN refs |-> [name |-> refs[i], alias |-> i]]

Doc(refs, items, errs) ==
    [sources |-> SrcList(refs), items |-> items, errors |-> errs]

\* The entry files a run can find on disk when it starts.
NoFiles == <<>>

OverlapFiles ==
    [n \in {"SNa", "SNb", "SNc"} |->
        CASE n = "SNa" ->
               Doc(<<"R1">>,
                   <<Item("alias", "SNa", <<1>>), Item("alias", "SNc", <<1>>),
                     Item("alias", "x", <<1>>)>>, <<>>)
          [] n = "SNb" ->
               Doc(<<"TNS">>,
                   <<Item("alias", "SNb", <<1>>), Item("alias", "x", <<1>>),
                     Item("claimedtype", "Ia", <<1>>),
                     Item("photometry", "p1", <<1>>),
                     Item("spectra", "s1", <<1>>)>>, <<>>)
          [] n = "SNc" ->
               Doc(<<"R1", "TNS">>,
                   <<Item("alias", "SNc", <<1>>),
                     Item("alias", "SNa", <<1, 2>>),
                     Item("claimedtype", "Ia", <<2>>)>>, <<"note">>)]

UnsourcedFiles ==
    [n \in {"SNa", "x"} |->
        CASE n = "SNa" ->
               Doc(<<"R1">>,
                   <<Item("alias", "SNa", <<1>>), Item("alias", "x", <<1>>)>>,
                   <<>>)
          [] n = "x" ->
               Doc(<<"TNS">>,
                   <<Item("alias", "x", <<1>>),
                     [Item("claimedtype", "Ia", <<>>)
                         EXCEPT !.sourced = FALSE]>>, <<>>)]

DanglingFiles ==
    [n \in {"SNa", "x"} |->
        CASE n = "SNa" ->
               Doc(<<"R1">>,
                   <<Item("alias", "SNa", <<1>>), Item("alias", "x", <<1>>)>>,
                   <<>>)
          [] n = "x" ->
               Doc(<<"TNS">>,
                   <<Item("alias", "x", <<1>>),
                     Item("photometry", "p1", <<1, 2>>)>>, <<>>)]

InitialFiles == {NoFiles, OverlapFiles, UnsourcedFiles, DanglingFiles}

\* The names and references the rows of the import tasks carry.
RowNames == {"SNa", "SNb", "x"}

\* ------------------------------------------------------------------ actions
CS == [entries |-> entries, aliases |-> aliases, files |-> files]

SetCS(cs) ==
    /\ entries' = cs.entries
    /\ aliases' = cs.aliases
    /\ files' = cs.files

CInit ==
    /\ entries = <<>>
    /\ aliases = <<>>
    /\ files \in InitialFiles
    /\ write_entries \in BOOLEAN
    /\ pc = "idle"
    /\ keys = <<>>
    /\ n1 = 0
    /\ inner = <<>>
    /\ allnames1 = {}
    /\ rows = 0
    /\ op = "init"
    /\ arg = None
    /\ ret = None
    /\ mrg = NoMerge
    /\ settled = <<>>

\* The names of the entries, each with the set of its aliases.
Summary(E) ==
    {<<E[i].name, Range(get_aliases(E[i], TRUE))>> : i \in DOMAIN E}

\* A task creates or finds an entry with Catalog.new_entry.
NewEntry(name, ref) ==
    /\ pc = "idle"
    /\ rows < MaxRows
    /\ LET r == new_entry(CS, name, ref) IN
       /\ SetCS(r.cs)
       /\ ret' = r.ret
    /\ rows' = rows + 1
    /\ op' = "new_entry"
    /\ arg' = name
    /\ mrg' = NoMerge
    /\ settled' = <<>>
    /\ UNCHANGED <<write_entries, pc, keys, n1, inner, allnames1>>
    /\ UNCHANGED svars
    /\ UNCHANGED <<gvars, qvars, pvars>>

\* do_tns, one row: the entry of the row's name is found or created, the name
\* is recorded as its alias and so is the row's internal name, if it has one.
TnsRow(name, internal) ==
    /\ pc = "idle"
    /\ rows < MaxRows
    /\ LET r == add_entry(CS, name)
           c1 == AddSourced(r.cs, r.ret, "TNS", "alias", name)
           c2 == IF internal # None
                 THEN AddSourced(c1, r.ret, "TNS", "alias", internal)
                 ELSE c1
       IN  /\ SetCS(c2)
           /\ ret' = r.ret
    /\ rows' = rows + 1
    /\ op' = "tns"
    /\ arg' = name
    /\ mrg' = NoMerge
    /\ settled' = <<>>
    /\ UNCHANGED <<write_entries, pc, keys, n1, inner, allnames1>>
    /\ UNCHANGED svars
    /\ UNCHANGED <<gvars, qvars, pvars>>

\* import_data journals the entries when a task has finished.
Journal ==
    /\ pc = "idle"
    /\ entries # <<>>
    /\ SetCS(journal_entries(CS))
    /\ op' = "journal"
    /\ arg' = None
    /\ ret' = None
    /\ mrg' = NoMerge
    /\ UNCHANGED <<write_entries, pc, keys, n1, inner, allnames1, rows,
                   settled>>
    /\ UNCHANGED svars
    /\ UNCHANGED <<gvars, qvars, pvars>>

\* import_data reaches the merge_duplicates task: the entries of the task
\* before it have been journaled; merge_duplicates loads the stubs when there
\* are no entries (unless args.update is set, when it returns) and sorts the
\* keys.
MergeStart(update) ==
    /\ pc = "idle"
    /\ LET c0 == journal_entries(CS)
           c1 == IF c0.entries = <<>> /\ ~update THEN load_stubs(c0) ELSE c0
       IN  /\ SetCS(c1)
           /\ IF c0.entries = <<>> /\ update
              THEN /\ pc' = "idle"
                   /\ keys' = <<>>
              ELSE /\ pc' = "outer"
                   /\ keys' = Sorted(EntryNames(c1.entries))
    /\ n1' = 0
    /\ inner' = <<>>
    /\ allnames1' = {}
    /\ op' = "merge_duplicates"
    /\ arg' = None
    /\ ret' = None
    /\ mrg' = NoMerge
    /\ UNCHANGED <<write_entries, rows, settled>>
    /\ UNCHANGED svars
    /\ UNCHANGED <<gvars, qvars, pvars>>

\* merge_duplicates: the head of `while n1 < len(keys)`.
MergeOuter ==
    /\ pc = "outer"
    /\ IF n1 >= Len(keys)
       THEN /\ pc' = "idle"
            /\ op' = "merged"
            /\ settled' = <<Summary(entries),
                             DOMAIN files \subseteq EntryNames(entries),
                             FALSE, Len(keys) - Cardinality(Range(keys))>>
            /\ UNCHANGED <<n1, inner, allnames1>>
       ELSE LET name1 == keys[n1 + 1] IN
            /\ op' = "outer"
            /\ UNCHANGED settled
            /\ IF name1 \notin EntryNames(entries)
               THEN /\ n1' = n1 + 1
                    /\ UNCHANGED <<pc, inner, allnames1>>
               ELSE /\ allnames1' = AllNames(GetEntry(entries, name1))
                    /\ inner' = SubSeq(keys, n1 + 2, Len(keys))
                    /\ pc' = "inner"
                    /\ UNCHANGED n1
    /\ arg' = None
    /\ ret' = None
    /\ mrg' = NoMerge
    /\ UNCHANGED <<entries, aliases, files, write_entries, keys, rows>>
    /\ UNCHANGED svars
    /\ UNCHANGED <<gvars, qvars, pvars>>

\* merge_duplicates: one name2 of `for name2 in keys[n1 + 1:]`, or the end of
\* that loop.  A ValueError out of copy_entry_to_entry ends the run.
MergeInner ==
    /\ pc = "inner"
    /\ IF inner = <<>>
       THEN /\ n1' = n1 + 1
            /\ pc' = "outer"
            /\ mrg' = NoMerge
            /\ UNCHANGED <<entries, aliases, files, keys, inner>>
       ELSE LET r == merge_pair(CS, keys, allnames1, keys[n1 + 1],
                                Head(inner))
            IN  /\ SetCS(r.cs)
                /\ keys' = r.keys
                /\ mrg' = r.mrg
                /\ inner' = Tail(inner)
                /\ pc' = IF r.raised THEN "raised" ELSE "inner"
                /\ UNCHANGED n1
    /\ op' = "inner"
    /\ arg' = None
    /\ ret' = None
    /\ UNCHANGED <<write_entries, allnames1, rows, settled>>
    /\ UNCHANGED svars
    /\ UNCHANGED <<gvars, qvars, pvars>>

\* The process ends when the import has ingested its rows and
\* merge_duplicates has returned, and a new one is started on the same
\* files: Catalog.__init__ creates the empty `entries` and `aliases`.
Restart ==
    /\ pc = "idle"
    /\ op = "merged"
    /\ rows = MaxRows
    /\ entries' = <<>>
    /\ aliases' = <<>>
    /\ op' = "restart"
    /\ arg' = None
    /\ ret' = None
    /\ mrg' = NoMerge
    /\ settled' = <<settled[1], settled[2], TRUE, settled[4]>>
    /\ UNCHANGED <<files, write_entries, pc, keys, n1, inner, allnames1, rows>>
    /\ UNCHANGED svars
    /\ UNCHANGED <<gvars, qvars, pvars>>

Next ==
    \/ \E name \in RowNames, ref \in Refs : NewEntry(name, ref)
    \/ \E name \in RowNames, internal \in RowNames \cup {None} :
           TnsRow(name, internal)
    \/ Journal
    \/ \E update \in BOOLEAN : MergeStart(update)
    \/ MergeOuter
    \/ MergeInner

SInit ==
    /\ events = <<>>
    /\ sop = "init"
    /\ sarg = None
    /\ sret = None
    /\ foreign = FALSE

SAddEvent(name) ==
    LET r == add_event(events, name) IN
    /\ events' = r.events
    /\ sop' = "add_event"
    /\ sarg' = name
    /\ sret' = r.ret
    /\ UNCHANGED foreign
    /\ UNCHANGED cvars
    /\ UNCHANGED <<gvars, qvars, pvars>>

\* A task calls add_alias with the name add_event returned.
SAddAlias(name, alias) ==
    /\ name \in EventNames(events)
    /\ events' = add_alias(events, name, alias)
    /\ sop' = "add_alias"
    /\ sarg' = alias
    /\ sret' = None
    /\ foreign' = (foreign \/
                   \E e \in EventNames(events) \ {name} :
                       alias \in Range(EventAliases(events, e)))
    /\ UNCHANGED cvars
    /\ UNCHANGED <<gvars, qvars, pvars>>

SNext ==
    \/ \E name \in ScriptNames : SAddEvent(name)
    \/ \E name \in ScriptNames, alias \in ScriptNames : SAddAlias(name, alias)

\* --------------------------------------------------- the keys of one event

\* The plain keys of events[name] that the tasks and the final pass assign.
AttrKeys ==
    {"discoveryear", "discovermonth", "discoverday", "maxyear", "maxmonth",
     "maxday", "maxappmag", "maxabsmag"}

NoAttr == [k \in AttrKeys |-> ""]

\* The letters of a key or of a priority string, 'a' as 1 to 'z' as 26.
KeyCodes(k) ==
    CASE k = "name" -> <<14, 1, 13, 5>>
      [] k = "aliases" -> <<1, 12, 9, 1, 19, 5, 19>>
      [] k = "sources" -> <<19, 15, 21, 18, 3, 5, 19>>
      [] k = "discoverday" -> <<4, 9, 19, 3, 15, 22, 5, 18, 4, 1, 25>>
      [] k = "discovermonth" ->
            <<4, 9, 19, 3, 15, 22, 5, 18, 13, 15, 14, 20, 8>>
      [] k = "discoveryear" -> <<4, 9, 19, 3, 15, 22, 5, 18, 25, 5, 1, 18>>
      [] k = "maxday" -> <<13, 1, 24, 4, 1, 25>>
      [] k = "maxmonth" -> <<13, 1, 24, 13, 15, 14, 20, 8>>
      [] k = "maxyear" -> <<13, 1, 24, 25, 5, 1, 18>>
      [] k = "maxappmag" -> <<13, 1, 24, 1, 16, 16, 13, 1, 7>>
      [] k = "maxabsmag" -> <<13, 1, 24, 1, 2, 19, 13, 1, 7>>
      [] k = "redshift" -> <<18, 5, 4, 19, 8, 9, 6, 20>>
      [] k = "hvel" -> <<8, 22, 5, 12>>
      [] k = "lumdist" -> <<12, 21, 13, 4, 9, 19, 20>>
      [] k = "claimedtype" -> <<3, 12, 1, 9, 13, 5, 4, 20, 25, 16, 5>>
      [] k = "photometry" -> <<16, 8, 15, 20, 15, 13, 5, 20, 18, 25>>
      [] k = "spectra" -> <<19, 16, 5, 3, 20, 18, 1>>
      [] k = "aaaaaaaa" -> <<1, 1, 1, 1, 1, 1, 1, 1>>
      [] k = "aaaaaaab" -> <<1, 1, 1, 1, 1, 1, 1, 2>>
      [] k = "aaaaaaac" -> <<1, 1, 1, 1, 1, 1, 1, 3>>
      [] k = "zzzzzzzz" -> <<26, 26, 26, 26, 26, 26, 26, 26>>

\* Python's string order on the letters: a < b.
RECURSIVE CodesLess(_, _)
CodesLess(a, b) ==
    IF Len(a) = 0 THEN Len(b) > 0
    ELSE IF Len(b) = 0 THEN FALSE
    ELSE IF Head(a) # Head(b) THEN Head(a) < Head(b)
    ELSE CodesLess(Tail(a), Tail(b))

\* Every key is its own priority.
event_attr_plain(attr) == attr

\* event_attr_priority(attr)
event_attr_priority(attr) ==
    IF attr = "photometry" \/ attr = "spectra" THEN "zzzzzzzz"
    ELSE IF attr = "name" THEN "aaaaaaaa"
    ELSE IF attr = "aliases" THEN "aaaaaaab"
    ELSE IF attr = "sources" THEN "aaaaaaac"
    ELSE attr

\* The key k put into the sorted keys srt: before the first key of a
\* priority above its own.
RECURSIVE InsertKey(_, _)
InsertKey(srt, k) ==
    IF srt = <<>> THEN <<k>>
    ELSE IF CodesLess(KeyCodes(event_attr_priority(k)),
                      KeyCodes(event_attr_priority(Head(srt))))
    THEN <<k>> \o srt
    ELSE <<Head(srt)>> \o InsertKey(Tail(srt), k)

\* OrderedDict(sorted(events[name].items(), key=lambda key:
\* event_attr_priority(key[0]))): the keys in the order of their priority,
\* keys of one priority in the order they had.
RECURSIVE SortedKeys(_)
SortedKeys(ks) ==
    IF ks = <<>> THEN <<>>
    ELSE InsertKey(SortedKeys(SubSeq(ks, 1, Len(ks) - 1)), ks[Len(ks)])

\* events[name][k] = ... for each k of new in turn: a key the OrderedDict
\* does not have goes to its end.
SetKeys(ks, new) == ks \o SelectSeq(new, LAMBDA k : k \notin Range(ks))

\* ------------------------------------------------- the sources of one event
\* The reference names and bibcodes the tasks pass to get_source; "B1" is
\* passed both ways.  The empty string is a default left as it is.
RefNames == {"R1", "R2", "B1"}

Bibcodes == {"B1", "B2"}

Urls == {"", "u1"}

\* "http://adsabs.harvard.edu/abs/" + bibcode
AdsUrl(bibcode) ==
    CASE bibcode = "B1" -> "http://adsabs.harvard.edu/abs/B1"
      [] bibcode = "B2" -> "http://adsabs.harvard.edu/abs/B2"

\* str(n) for the numbers a source list can reach.
Str(n) ==
    CASE n = 0 -> "0"
      [] n = 1 -> "1"
      [] n = 2 -> "2"
      [] n = 3 -> "3"
      [] n = 4 -> "4"
      [] n = 5 -> "5"

Raised == "raised"

\* The alias of a new source counted from zero.
NewAliasFromZero(nsources) == Str(nsources)

\* source = str(nsources + 1)
NewAlias(nsources) == Str(nsources + 1)

\* [events[name]['sources'][x]['name'] for x in range(nsources)]
SourceNames(srcs) == [x \in DOMAIN srcs |-> srcs[x].name]

\* list.index(v)
IndexOf(list, v) ==
    CHOOSE i \in DOMAIN list : list[i] = v /\ \A j \in 1..(i - 1) : list[j] # v

\* get_source that appends a source whether or not the list has the name.
get_source_appends(srcs, reference, url, bibcode, secondary) ==
    LET ref == IF reference = "" THEN bibcode ELSE reference
        u == IF reference = "" THEN AdsUrl(bibcode) ELSE url
    IN  [sources |-> Append(srcs, [name |-> ref, url |-> u,
                                   bibcode |-> bibcode,
                                   alias |-> NewAlias(Len(srcs)),
                                   secondary |-> secondary]),
         ret |-> NewAlias(Len(srcs))]

\* get_source(name, reference, url, bibcode, secondary) on the source list of
\* the event: the list after the call and the alias returned.  A key that
\* the code leaves out of a source ('url', 'bibcode') is the empty string.
get_source(srcs, reference, url, bibcode, secondary) ==
    LET nsources == Len(srcs) IN
    IF reference = "" /\ bibcode = ""
    THEN [sources |-> srcs, ret |-> Raised]
    ELSE LET ref == IF reference = "" THEN bibcode ELSE reference
             u == IF reference = "" THEN AdsUrl(bibcode) ELSE url
         IN  IF ref \notin Range(SourceNames(srcs))
             THEN [sources |-> Append(srcs, [name |-> ref, url |-> u,
                                             bibcode |-> bibcode,
                                             alias |-> NewAlias(nsources),
                                             secondary |-> secondary]),
                   ret |-> NewAlias(nsources)]
             ELSE [sources |-> srcs,
                   ret |-> srcs[IndexOf(SourceNames(srcs), ref)].alias]

\* The argument lists of the get_source calls of the tasks: a reference with
\* or without url and secondary flag, or a bibcode alone.
SourceCalls ==
    [reference : RefNames, url : Urls, bibcode : {""}, secondary : BOOLEAN]
        \cup [reference : {""}, url : {""}, bibcode : Bibcodes,
              secondary : {FALSE}]

GInit ==
    /\ evsources = <<>>
    /\ gop = "init"
    /\ garg = [reference |-> "", url |-> "", bibcode |-> "", secondary |-> FALSE]
    /\ gret = None

\* A task asks for the alias of a source; the tasks come before the final
\* pass.
GetSource(c) ==
    LET r == get_source(evsources, c.reference, c.url, c.bibcode, c.secondary)
    IN  /\ qop # "finalize"
        /\ evsources' = r.sources
        /\ gop' = "get_source"
        /\ garg' = c
        /\ gret' = r.ret
        /\ evkeys' = IF r.sources # <<>> THEN SetKeys(evkeys, <<"sources">>)
                      ELSE evkeys
        /\ UNCHANGED <<evphot, evspectra, evattr, firstmax, pprev, aprev>>
        /\ UNCHANGED <<svars, cvars, qvars>>

GNext == \E c \in SourceCalls : GetSource(c)

\* ------------------------------------------------ the quanta of one event

\* The keys of events[name] that add_quanta is called with here.
QuantaKinds == {"redshift", "hvel", "lumdist", "claimedtype"}

repbetterquanta == {"redshift", "ebv", "hvel", "lumdist"}

\* The value strings the tasks read from their tables.
RedshiftValues == {"0.04", "0.045", "0.0450", "0.05 ", "n/a", "-"}

HvelValues == {"13000"}

TypeValues == {"Ia", "Ia pec", "Ia P", "?"}

\* The error strings the tasks read from their tables.
ErrorValues == {"", "0.001", "0.01", "0.010", "abc", "-1"}

\* The aliases get_source has returned to a task.
QuantaSources == {<<"1">>, <<"2">>}

\* ','.join([source, secondarysource]): the aliases a task has joined.
JoinedSources == {<<"1", "2">>}

\* str.strip() on the strings above.
Strip(s) == IF s = "0.05 " THEN "0.05" ELSE s

\* float(s) in thousandths, for the strings float() accepts.
FloatTable ==
    [s \in {"0.03", "0.04", "0.044", "0.045", "0.0450", "0.05", "0.05 ", "0.001",
            "0.01", "0.010", "-1", "10000", "13000", "200", "210", "55000",
            "55000.0", "55001", "17.5", "18", "0.1", "0.10"} |->
        CASE s = "10000" -> 10000000
          [] s \in {"55000", "55000.0"} -> 55000000
          [] s = "55001" -> 55001000
          [] s = "17.5" -> 17500
          [] s = "18" -> 18000
          [] s \in {"0.1", "0.10"} -> 100
          [] s = "13000" -> 13000000
          [] s = "200" -> 200000
          [] s = "210" -> 210000
          [] s = "0.03" -> 30
          [] s = "0.04" -> 40
          [] s = "0.044" -> 44
          [] s \in {"0.045", "0.0450"} -> 45
          [] s \in {"0.05", "0.05 "} -> 50
          [] s = "0.001" -> 1
          [] s \in {"0.01", "0.010"} -> 10
          [] s = "-1" -> 0 - 1000]

is_number(s) == s \in DOMAIN FloatTable

Float(s) == FloatTable[s]

\* '%g' % Decimal(s)
FormatG(s) ==
    CASE s = "0.0450" -> "0.045"
      [] s = "0.010" -> "0.01"
      [] OTHER -> s

\* get_sig_digits: the digits left when the dot is taken out and the zeros
\* at both ends are stripped.
get_sig_digits(x) ==
    CASE x \in {"0.03", "0.04", "0.05", "0.001", "0.01", "10000", "200"} -> 1
      [] x \in {"0.044", "0.045", "13000", "210"} -> 2
      [] x = "?" -> 1
      [] x = "Ia" -> 2
      [] x = "n/a" -> 3
      [] x = "Ia P" -> 4
      [] OTHER -> 0

\* add_quanta, the `for rep in typereps` loop.
typereps(svalue) == IF svalue \in {"Ia pec", "Ia-pec", "Iapec"} THEN "Ia P"
                    ELSE svalue

\* The candidate is appended whatever its error is.
MalformedNever(serror) == FALSE

\* add_quanta, the condition of the second raise.
MalformedError(serror) ==
    serror # "" /\ (~is_number(serror) \/ Float(serror) < 0)

\* A record without the 'source' key.
quantaentry_unsourced(svalue, serror, source) ==
    [value |-> svalue, error |-> serror, source |-> <<>>]

\* add_quanta, `quantaentry`: an absent 'error' or 'source' key is the empty
\* string or sequence.
quantaentry(svalue, serror, source) ==
    [value |-> svalue, error |-> serror, source |-> source]

\* No record is found to have the value.
SameValueNever(list, svalue) == 0

\* The first record of the list with this value, 0 when there is none.
SameValue(list, svalue) ==
    IF \E i \in 1..Len(list) : list[i].value = svalue
    THEN CHOOSE i \in 1..Len(list) :
            /\ list[i].value = svalue
            /\ \A j \in 1..(i - 1) : list[j].value # svalue
    ELSE 0

\* `source not in ct['source'].split(',')`: source is one string, and it is
\* one of the split parts only when it is one alias.
SourceIn(source, ct) ==
    Len(source) = 1 /\ \E i \in 1..Len(ct.source) : ct.source[i] = source[1]

\* add_quanta, the body of `if ct['value'] == svalue`.
AddSource(ct, source, serror) ==
    IF source # <<>> /\ ~SourceIn(source, ct)
    THEN [ct EXCEPT !.source = ct.source \o source,
                    !.error = IF serror # "" THEN serror ELSE ct.error]
    ELSE ct

\* Every record gets to newquantas.
KeepsAlways(ct, serror, newsig) == TRUE

\* add_quanta, the prefer-better loop: ct gets to newquantas.
Keeps(ct, serror, newsig) ==
    IF ct.error # ""
    THEN ~(serror # "" /\ Float(serror) < Float(ct.error))
    ELSE serror = "" /\ get_sig_digits(ct.value) >= newsig

\* Every record lets the candidate in.
NotWorseAlways(ct, serror, newsig) == TRUE

\* add_quanta, the prefer-better loop: ct sets isworse to False.
NotWorse(ct, serror, newsig) ==
    IF ct.error # ""
    THEN serror # "" /\ Float(serror) < Float(ct.error)
    ELSE serror # "" \/ newsig >= get_sig_digits(ct.value)

\* add_quanta, the `if (forcereplacebetter or ...)` branch.
ReplaceBetter(list, entry) ==
    LET newsig == get_sig_digits(entry.value)
        kept(ct) == Keeps(ct, entry.error, newsig)
        newquantas == SelectSeq(list, kept)
        isworse == ~\E i \in 1..Len(list) :
                        NotWorse(list[i], entry.error, newsig)
    IN  IF isworse THEN newquantas ELSE Append(newquantas, entry)

Returned == "returned"

\* add_quanta on the quanta q of the event: the quanta after the call and how
\* the call ended.  A key of events[name] is present when its list is not
\* empty.
add_quanta(q, quanta, value, source, forcereplacebetter, error) ==
    LET svalue0 == Strip(value)
        serror0 == Strip(error)
        svalue1 == IF quanta = "claimedtype" THEN typereps(svalue0)
                   ELSE svalue0
        svalue == IF is_number(value) THEN FormatG(svalue1) ELSE svalue1
        serror == IF serror0 # "" THEN FormatG(serror0) ELSE serror0
        list == q[quanta]
        i == SameValue(list, svalue)
        entry == quantaentry(svalue, serror, source)
    IN  IF quanta = ""
        THEN [quanta |-> q, ret |-> Raised]
        ELSE IF svalue0 = "" \/ svalue0 = "--" \/ svalue0 = "-"
        THEN [quanta |-> q, ret |-> Returned]
        ELSE IF MalformedError(serror0)
        THEN [quanta |-> q, ret |-> Raised]
        ELSE IF quanta \in {"hvel", "redshift"} /\ ~is_number(value)
        THEN [quanta |-> q, ret |-> Returned]
        ELSE IF i # 0
        THEN [quanta |-> [q EXCEPT ![quanta][i] =
                                        AddSource(list[i], source, serror)],
              ret |-> Returned]
        ELSE IF (forcereplacebetter \/ quanta \in repbetterquanta)
                /\ list # <<>>
        THEN [quanta |-> [q EXCEPT ![quanta] = ReplaceBetter(list, entry)],
              ret |-> Returned]
        ELSE [quanta |-> [q EXCEPT ![quanta] = Append(list, entry)],
              ret |-> Returned]

\* --------------------------------------------- the photometry of one event

\* Decimal(s) for the strings float() accepts, in thousandths.
Decimal(s) == Float(s)

\* Python's string order on the bands here.
BandLess(a, b) == a = "" /\ b = "B"

\* Python's string order on the times here.
TimeLess(a, b) ==
    LET rank(t) == CASE t = "55000" -> 1
                     [] t = "55000.0" -> 2
                     [] t = "55001" -> 3
    IN  rank(a) < rank(b)

\* astrotime(float(time), format='mjd').datetime through pretty_num
DateOf(time) ==
    IF Decimal(time) = 55000000
    THEN [year |-> "2009", month |-> "6", day |-> "18"]
    ELSE [year |-> "2009", month |-> "6", day |-> "19"]

\* pretty_num(Decimal(abmag))
PrettyMag(abmag) == abmag

\* A point is a duplicate only of a point with the same strings.
SamePointVerbatim(photo, timeunit, time, band, abmag, aberr) ==
    /\ photo.timeunit = timeunit
    /\ photo.band = band
    /\ photo.time = time
    /\ photo.abmag = abmag
    /\ photo.aberr = aberr

\* add_photometry, the condition of `return` in the loop over the points:
\* an 'aberr' key that is absent is the empty string.
SamePoint(photo, timeunit, time, band, abmag, aberr) ==
    /\ photo.timeunit = timeunit
    /\ photo.band = band
    /\ Decimal(photo.time) = Decimal(time)
    /\ Decimal(photo.abmag) = Decimal(abmag)
    /\ \/ photo.aberr = "" /\ aberr = ""
       \/ /\ photo.aberr # ""
          /\ aberr # ""
          /\ Decimal(photo.aberr) = Decimal(aberr)
       \/ photo.aberr # "" /\ aberr = ""

\* add_photometry of the script on the photometry of the event: the
\* photometry after the
\* call.  The tasks here pass no instrument and no upper limit.
events_add_photometry(phot, timeunit, time, band, abmag, aberr, source) ==
    IF time = "" \/ abmag = "" THEN phot
    ELSE IF ~is_number(time) \/ ~is_number(abmag) THEN phot
    ELSE IF aberr # "" /\ ~is_number(aberr) THEN phot
    ELSE IF \E i \in 1..Len(phot) :
                SamePoint(phot[i], timeunit, time, band, abmag, aberr)
    THEN phot
    ELSE Append(phot, [timeunit |-> timeunit, time |-> time, band |-> band,
                       abmag |-> abmag, aberr |-> aberr, source |-> source])

\* The points the tasks read from their tables.
PhotometryCalls ==
    [timeunit : {"MJD"}, time : {"55000", "55000.0"}, band : {"", "B"},
     abmag : {"17.5"}, aberr : {"", "0.1", "0.10"}, source : {<<"1">>}]
    \cup [timeunit : {"MJD", "JD"}, time : {"55001"}, band : {""},
          abmag : {"18"}, aberr : {""}, source : {<<"1">>}]
    \cup [timeunit : {"MJD"}, time : {"", "n/a"}, band : {""},
          abmag : {"17.5"}, aberr : {""}, source : {<<"1">>}]
    \cup [timeunit : {"MJD"}, time : {"55000"}, band : {""},
          abmag : {"17.5"}, aberr : {"abc"}, source : {<<"1">>}]

\* A task calls add_photometry.
AddPhotometry(c) ==
    /\ qop # "finalize"
    /\ calls < MaxCalls
    /\ calls' = calls + 1
    /\ pprev' = evphot
    /\ aprev' = evattr
    /\ qprev' = evquanta
    /\ evphot' = events_add_photometry(evphot, c.timeunit, c.time, c.band,
                                       c.abmag, c.aberr, c.source)
    /\ evkeys' = IF evphot' # <<>> THEN SetKeys(evkeys, <<"photometry">>)
                 ELSE evkeys
    /\ qop' = "add_photometry"
    /\ qarg' = c
    /\ qret' = Returned
    /\ UNCHANGED <<evquanta, evspectra, evattr, firstmax>>
    /\ UNCHANGED <<svars, cvars, gvars>>

\* add_spectrum of the script on the spectra of the event, as far as the time of the
\* spectrum goes: the spectra after the call.
events_add_spectrum(spectra, waveunit, fluxunit, time) ==
    IF waveunit = "" THEN spectra
    ELSE IF fluxunit = "" THEN spectra
    ELSE Append(spectra, [time |-> time, waveunit |-> waveunit,
                          fluxunit |-> fluxunit])

\* The spectra the tasks read from their files.
SpectrumCalls ==
    [waveunit : {"Angstrom"}, fluxunit : {"Uncalibrated"},
     time : {"55000", "55001"}]

\* A task calls add_spectrum.
AddSpectrum(c) ==
    /\ qop # "finalize"
    /\ calls < MaxCalls
    /\ calls' = calls + 1
    /\ pprev' = evphot
    /\ aprev' = evattr
    /\ qprev' = evquanta
    /\ evspectra' = events_add_spectrum(evspectra, c.waveunit, c.fluxunit,
                                        c.time)
    /\ evkeys' = IF evspectra' # <<>> THEN SetKeys(evkeys, <<"spectra">>)
                 ELSE evkeys
    /\ qop' = "add_spectrum"
    /\ qarg' = c
    /\ qret' = Returned
    /\ UNCHANGED <<evquanta, evphot, evattr, firstmax>>
    /\ UNCHANGED <<svars, cvars, gvars>>

\* The first of the points with the smallest magnitude.
MaxLight(phot) ==
    CHOOSE i \in 1..Len(phot) :
        /\ \A j \in 1..Len(phot) : Decimal(phot[i].abmag) <= Decimal(phot[j].abmag)
        /\ \A j \in 1..(i - 1) : Decimal(phot[j].abmag) # Decimal(phot[i].abmag)

\* The first of the points with the smallest time string.
FirstLight(phot) ==
    CHOOSE i \in 1..Len(phot) :
        /\ \A j \in 1..Len(phot) : ~TimeLess(phot[j].time, phot[i].time)
        /\ \A j \in 1..(i - 1) : phot[j].time # phot[i].time

\* set_first_max_light on the plain keys of the event.
set_first_max_light(attr, phot) ==
    IF phot = <<>> THEN attr
    ELSE LET ml == phot[MaxLight(phot)]
             fl == phot[FirstLight(phot)]
         IN  [attr EXCEPT !["maxyear"] = DateOf(ml.time).year,
                          !["maxmonth"] = DateOf(ml.time).month,
                          !["maxday"] = DateOf(ml.time).day,
                          !["maxappmag"] = PrettyMag(ml.abmag),
                          !["discoveryear"] = DateOf(fl.time).year,
                          !["discovermonth"] = DateOf(fl.time).month,
                          !["discoverday"] = DateOf(fl.time).day]

\* `if dofirstmax:` after the tasks that read photometry tables.
FirstMax ==
    /\ qop # "finalize"
    /\ ~firstmax
    /\ firstmax' = TRUE
    /\ pprev' = evphot
    /\ aprev' = evattr
    /\ qprev' = evquanta
    /\ evattr' = set_first_max_light(evattr, evphot)
    /\ evkeys' = IF evphot = <<>> THEN evkeys
                 ELSE SetKeys(evkeys, <<"maxyear", "maxmonth", "maxday",
                                        "maxappmag", "discoveryear",
                                        "discovermonth", "discoverday">>)
    /\ qop' = "set_first_max_light"
    /\ qarg' = None
    /\ qret' = Returned
    /\ UNCHANGED <<evquanta, evphot, evspectra, calls>>
    /\ UNCHANGED <<svars, cvars, gvars>>

\* The years the tasks take from the name of the event.
DiscoverYears == {"2008"}

\* A task sets the year of the discovery from the name of the event:
\* events[name]['discoveryear'] = year.
DiscoverYear(year) ==
    /\ qop # "finalize"
    /\ calls < MaxCalls
    /\ calls' = calls + 1
    /\ pprev' = evphot
    /\ aprev' = evattr
    /\ qprev' = evquanta
    /\ evattr' = [evattr EXCEPT !["discoveryear"] = year]
    /\ evkeys' = SetKeys(evkeys, <<"discoveryear">>)
    /\ qop' = "discoveryear"
    /\ qarg' = year
    /\ qret' = Returned
    /\ UNCHANGED <<evquanta, evphot, evspectra, firstmax>>
    /\ UNCHANGED <<svars, cvars, gvars>>

\* The dates of discovery in the table of the rochester task.
DiscoverDates == {[year |-> "2009", month |-> "6", day |-> "10"]}

\* The rochester task sets the date of the discovery; it comes before the
\* `if dofirstmax:` pass.
DiscoverDate(d) ==
    /\ qop # "finalize"
    /\ ~firstmax
    /\ calls < MaxCalls
    /\ calls' = calls + 1
    /\ pprev' = evphot
    /\ aprev' = evattr
    /\ qprev' = evquanta
    /\ evattr' = [evattr EXCEPT !["discoverday"] = d.day,
                                !["discovermonth"] = d.month,
                                !["discoveryear"] = d.year]
    /\ evkeys' = SetKeys(evkeys, <<"discoverday", "discovermonth",
                                   "discoveryear">>)
    /\ qop' = "discoverdate"
    /\ qarg' = d
    /\ qret' = Returned
    /\ UNCHANGED <<evquanta, evphot, evspectra, firstmax>>
    /\ UNCHANGED <<svars, cvars, gvars>>

\* The calls the tasks make: an error is passed with a redshift (or a
\* lumdist) only, forcereplacebetter never; some tasks pass the alias of
\* their reference joined with that of the table they read.
QuantaCalls ==
    [quanta : {"redshift"}, value : RedshiftValues, source : QuantaSources,
     error : ErrorValues]
    \cup [quanta : {"hvel"}, value : HvelValues, source : QuantaSources,
          error : {""}]
    \cup [quanta : {"claimedtype"}, value : TypeValues,
          source : QuantaSources, error : {""}]
    \cup [quanta : {"redshift"}, value : {"0.04", "0.045"},
          source : JoinedSources, error : {""}]
    \cup [quanta : {"claimedtype"}, value : {"Ia", "Ia pec"},
          source : JoinedSources, error : {""}]

\* A task calls add_quanta; a ValueError ends the task and leaves the event
\* as it is.
AddQuanta(c) ==
    LET r == add_quanta(evquanta, c.quanta, c.value, c.source, FALSE, c.error)
    IN  /\ qop # "finalize"
        /\ calls < MaxCalls
        /\ calls' = calls + 1
        /\ qprev' = evquanta
        /\ evquanta' = r.quanta
        /\ qop' = "add_quanta"
        /\ qarg' = c
        /\ qret' = r.ret
        /\ evkeys' = IF r.quanta[c.quanta] # <<>>
                      THEN SetKeys(evkeys, <<c.quanta>>)
                      ELSE evkeys
        /\ pprev' = evphot
        /\ aprev' = evattr
        /\ UNCHANGED <<evphot, evspectra, evattr, firstmax>>
        /\ UNCHANGED <<svars, cvars, gvars>>

\* The value of the record with the most significant digits, the first of
\* them, and "" when no record has any.
BestValue(list) ==
    LET best(i) == /\ get_sig_digits(list[i].value) > 0
                   /\ \A j \in 1..Len(list) :
                        \/ get_sig_digits(list[j].value)
                                < get_sig_digits(list[i].value)
                        \/ /\ get_sig_digits(list[j].value)
                                = get_sig_digits(list[i].value)
                           /\ j >= i
    IN  IF \E i \in 1..Len(list) : best(i)
        THEN list[CHOOSE i \in 1..Len(list) : best(i)].value
        ELSE ""

\* pretty_num(clight/1.e5*((bestz + 1.)**2. - 1.)/((bestz + 1.)**2. + 1.),
\* sig = bestsig)
VelocityOf(bestz) ==
    CASE bestz = "0.045" -> "13000"
      [] OTHER -> "10000"

\* pretty_num(sqrt((1. + voc)/(1. - voc)) - 1., sig = bestsig)
RedshiftOf(besthv) ==
    CASE besthv = "13000" -> "0.044"
      [] besthv = "10000" -> "0.03"

\* pretty_num(cosmo.luminosity_distance(float(bestz)).value, sig = bestsig)
DistanceOf(bestz) ==
    CASE bestz = "0.045" -> "210"
      [] OTHER -> "200"

\* The `if writeevents:` loop body as far as the hvel and the redshift go:
\* the unknown types are taken out, then an hvel or a redshift is derived
\* from the best of the other, with the source 'D'.
finalize_velocity(q) ==
    LET keep(ct) == ct.value # "?" /\ ct.value # "-"
        q1 == [q EXCEPT !["claimedtype"] = SelectSeq(q["claimedtype"], keep)]
        bestz1 == BestValue(q1["redshift"])
        besthv == BestValue(q1["hvel"])
    IN  IF q1["redshift"] # <<>> /\ q1["hvel"] = <<>>
        THEN IF bestz1 # ""
             THEN add_quanta(q1, "hvel", VelocityOf(bestz1), <<"D">>,
                             FALSE, "").quanta
             ELSE q1
        ELSE IF q1["hvel"] # <<>> /\ q1["redshift"] = <<>>
        THEN IF besthv # "" /\ is_number(besthv)
             THEN add_quanta(q1, "redshift", RedshiftOf(besthv),
                             <<"D">>, FALSE, "").quanta
             ELSE q1
        ELSE q1

\* The `if writeevents:` loop body for the event, as far as its quanta go:
\* after the hvel or the redshift, a lumdist is derived from the best
\* redshift, with the source 'D'.
finalize(q) ==
    LET q2 == finalize_velocity(q)
        bestz == BestValue(q2["redshift"])
    IN  IF q2["redshift"] # <<>> /\ bestz # "" /\ Float(bestz) > 0
           /\ q2["lumdist"] = <<>>
        THEN add_quanta(q2, "lumdist", DistanceOf(bestz), <<"D">>,
                        FALSE, "").quanta
        ELSE q2

\* pretty_num(float(maxappmag) - 5.0*(log10(d) - 1.0), sig = bestsig) for
\* the magnitudes and the distances here: about -19, which one digit gives
\* as -20.
AbsMagOf(maxappmag, bestsig) == IF bestsig = 1 THEN "-20" ELSE "-19"

\* The `if writeevents:` loop body for the event, as far as 'maxabsmag'
\* goes: from the best lumdist the event has, or with the lumdist that is
\* derived.
finalize_maxabsmag(q, attr) ==
    LET bestld == BestValue(q["lumdist"])
        a1 == IF /\ attr["maxabsmag"] = ""
                 /\ attr["maxappmag"] # ""
                 /\ q["lumdist"] # <<>>
                 /\ bestld # ""
                 /\ is_number(bestld)
                 /\ Float(bestld) > 0
              THEN [attr EXCEPT !["maxabsmag"] =
                        AbsMagOf(attr["maxappmag"], get_sig_digits(bestld))]
              ELSE attr
        q2 == finalize_velocity(q)
        bestz == BestValue(q2["redshift"])
    IN  IF /\ q2["redshift"] # <<>>
           /\ bestz # ""
           /\ Float(bestz) > 0
           /\ q2["lumdist"] = <<>>
           /\ a1["maxabsmag"] = ""
           /\ a1["maxappmag"] # ""
        THEN [a1 EXCEPT !["maxabsmag"] =
                    AbsMagOf(a1["maxappmag"], get_sig_digits(bestz))]
        ELSE a1

\* list.sort(key=lambda x: (float(x['time']), x['band'], float(x['abmag'])))
SortedPhotometry(phot) ==
    LET less(a, b) ==
            \/ Decimal(a.time) < Decimal(b.time)
            \/ /\ Decimal(a.time) = Decimal(b.time)
               /\ \/ BandLess(a.band, b.band)
                  \/ a.band = b.band /\ Decimal(a.abmag) < Decimal(b.abmag)
        before(j, i) == \/ less(phot[j], phot[i])
                        \/ ~less(phot[i], phot[j]) /\ j < i
        pos == [i \in 1..Len(phot) |->
                    1 + Cardinality({j \in 1..Len(phot) : before(j, i)})]
    IN  [p \in 1..Len(phot) |-> phot[CHOOSE i \in 1..Len(phot) : pos[i] = p]]

\* list.sort(key=lambda x: float(x['time']))
SortedSpectra(spectra) ==
    LET before(j, i) ==
            \/ Decimal(spectra[j].time) < Decimal(spectra[i].time)
            \/ Decimal(spectra[j].time) = Decimal(spectra[i].time) /\ j < i
        pos == [i \in 1..Len(spectra) |->
                    1 + Cardinality({j \in 1..Len(spectra) : before(j, i)})]
    IN  [p \in 1..Len(spectra) |->
            spectra[CHOOSE i \in 1..Len(spectra) : pos[i] = p]]

\* The `if writeevents:` loop body for the event: the derived quanta and
\* 'maxabsmag', the photometry and the spectra in the order of their times,
\* the keys in the order of their priority.
Finalize ==
    /\ qop # "finalize"
    /\ qprev' = evquanta
    /\ pprev' = evphot
    /\ aprev' = evattr
    /\ evquanta' = finalize(evquanta)
    /\ evattr' = finalize_maxabsmag(evquanta, evattr)
    /\ evphot' = SortedPhotometry(evphot)
    /\ evspectra' = SortedSpectra(evspectra)
    /\ evkeys' =
        LET made == SelectSeq(<<"hvel", "redshift", "lumdist">>,
                              LAMBDA k : evquanta'[k] # <<>>)
                    \o (IF evattr'["maxabsmag"] # "" THEN <<"maxabsmag">>
                        ELSE <<>>)
        IN  SortedKeys(SetKeys(evkeys, made))
    /\ qop' = "finalize"
    /\ qarg' = None
    /\ qret' = Returned
    /\ UNCHANGED <<calls, firstmax>>
    /\ UNCHANGED <<svars, cvars, gvars>>

QNext == (\E c \in QuantaCalls : AddQuanta(c)) \/ Finalize


QInit ==
    /\ evquanta = [k \in QuantaKinds |-> <<>>]
    /\ qop = "init"
    /\ qarg = None
    /\ qret = None
    /\ qprev = [k \in QuantaKinds |-> <<>>]
    /\ calls = 0

\* add_event has made events[name] with its name and its first alias.
PInit ==
    /\ evphot = <<>>
    /\ evspectra = <<>>
    /\ evattr = NoAttr
    /\ evkeys = <<"name", "aliases">>
    /\ firstmax = FALSE
    /\ pprev = <<>>
    /\ aprev = NoAttr

\* A Catalog that stays as it is constructed.
CIdle == CInit /\ files = NoFiles /\ write_entries

Init == SInit /\ CInit /\ GInit /\ QInit /\ PInit

\* One event of the script next to a Catalog that stays as it is constructed.
EventInit == SInit /\ CIdle /\ GInit /\ QInit /\ PInit

\* The source list of one event with get_source.
SpecSources == EventInit /\ [][GNext]_vars

\* The quanta of one event with add_quanta and the final pass.
SpecQuanta == EventInit /\ [][QNext]_vars

\* The photometry of one event with add_photometry.
PNext == \E c \in PhotometryCalls : AddPhotometry(c)

SpecPhotometry == EventInit /\ [][PNext]_vars

\* The calls of the tasks for one event that has a redshift, a velocity, a
\* distance or a type, two points, two spectra and one source.
EventQuantaCalls ==
    [quanta : {"redshift"}, value : {"0.045"}, source : {<<"1">>},
     error : {""}]
    \cup [quanta : {"hvel"}, value : {"13000"}, source : {<<"1">>},
          error : {""}]
    \cup [quanta : {"lumdist"}, value : {"200"}, source : {<<"1">>},
          error : {""}]
    \cup [quanta : {"claimedtype"}, value : {"Ia"}, source : {<<"1">>},
          error : {""}]

EventPhotometryCalls ==
    [timeunit : {"MJD"}, time : {"55000"}, band : {""}, abmag : {"17.5"},
     aberr : {""}, source : {<<"1">>}]
    \cup [timeunit : {"MJD"}, time : {"55001"}, band : {""}, abmag : {"18"},
          aberr : {""}, source : {<<"1">>}]

EventSourceCalls ==
    [reference : {"R1"}, url : {""}, bibcode : {""}, secondary : {FALSE}]

\* The tasks, the `if dofirstmax:` pass among them, and the final pass.
ENext ==
    \/ \E c \in EventSourceCalls : GetSource(c)
    \/ \E c \in EventQuantaCalls : AddQuanta(c)
    \/ \E c \in EventPhotometryCalls : AddPhotometry(c)
    \/ \E c \in SpectrumCalls : AddSpectrum(c)
    \/ \E year \in DiscoverYears : DiscoverYear(year)
    \/ \E d \in DiscoverDates : DiscoverDate(d)
    \/ FirstMax
    \/ Finalize

\* One event of the script from add_event to the final pass.
SpecEvent == EventInit /\ [][ENext]_vars

\* The Catalog of astrocats/catalog/catalog.py.
Spec == Init /\ [][Next]_vars

\* What every MergeInner step does to the loop variables: the inner loop goes
\* on to its next name2, or ends and n1 is incremented.  No other step is
\* possible when pc = "inner".
MergeInnerMoves ==
    /\ pc = "inner"
    /\ n1' = IF inner = <<>> THEN n1 + 1 ELSE n1
    /\ inner' = IF inner = <<>> THEN inner ELSE Tail(inner)

\* The Catalog when merge_duplicates, once called, runs on to its end: the
\* loops are sequential code that nothing else interrupts.
SpecMerge ==
    /\ Init /\ [][Next]_vars
    /\ WF_vars(MergeOuter)
    /\ WF_<<n1, inner>>(MergeInnerMoves)

\* The Catalog over several runs of the program on the same entry files.
SpecRestart == Init /\ [][Next \/ Restart]_vars

\* The `events` dictionary of scripts/import-external.py.
SpecScript == Init /\ [][SNext]_vars

\* ------------------------------------------------------------------ claims

Holders(E, name) ==
    {E[i].name : i \in {j \in DOMAIN E : name \in AllNames(E[j])}}

KeyResolvesToItself ==
    pc = "idle" =>
    \A name \in EntryNames(entries) :
        LET r == add_entry(CS, name) IN
        /\ r.ret = name
        /\ EntryNames(r.cs.entries) = EntryNames(entries)

LowerPriorityMergedIntoHigher ==
    mrg.kind = "merged" =>
        LET pfrom == Priority(AllNames(mrg.fromE))
            pdest == Priority(AllNames(mrg.destE))
        IN  pfrom # pdest => pfrom < pdest

\* A merge has just copied mrg.fromE into mrg.destE; the copy ended normally.
Merged == mrg.kind = "merged"

\* C7: the body of the merge loop, run once more for the two names of a merge
\* that has just ended, or for the name both now resolve to, changes neither
\* the entries nor the alias index nor the files nor the list of keys.
MergeIdempotent ==
    Merged =>
        LET again == merge_pair(CS, keys, allnames1, mrg.name1, mrg.name2)
            same == merge_pair(CS, keys, allnames1, mrg.dest, mrg.dest)
        IN  /\ again.cs = CS /\ again.keys = keys /\ ~again.raised
            /\ same.cs = CS /\ same.keys = keys /\ ~same.raised

\* A merge on a tie has ended with names still to compare.
MergeIdempotentWitness ==
    /\ Merged
    /\ mrg.from = mrg.name1
    /\ inner # <<>>
    /\ mrg.dest \in EntryNames(entries)

\* The references an item of the entry e cites.
Cited(e, item) ==
    {e.sources[i].name :
        i \in {j \in DOMAIN e.sources : e.sources[j].alias \in Range(item.source)}}

\* The references the items of e with this key and value cite.
CitedFor(e, key, value) ==
    UNION {Cited(e, e.items[i]) :
              i \in {j \in DOMAIN e.items :
                         e.items[j].key = key /\ e.items[j].value = value}}

\* C8: after a merge every item of the entry copied from is an item of the
\* entry copied into, where it cites the references it cited before and none
\* but these and the ones the other entry cited for it; and no two sources of
\* the entry copied into have one alias.
CitationsRemapped ==
    Merged =>
        /\ \A i \in DOMAIN mrg.fromE.items :
               LET it == mrg.fromE.items[i] IN
               \E j \in DOMAIN mrg.result.items :
                   LET rt == mrg.result.items[j] IN
                   /\ rt.key = it.key /\ rt.value = it.value
                   /\ Cited(mrg.fromE, it) \subseteq Cited(mrg.result, rt)
                   /\ Cited(mrg.result, rt) \subseteq
                          Cited(mrg.fromE, it)
                              \cup CitedFor(mrg.destE, it.key, it.value)
        /\ \A i, j \in DOMAIN mrg.result.sources :
               i # j => mrg.result.sources[i].alias # mrg.result.sources[j].alias

\* A merge gave a reference of the entry copied from another alias, the one it
\* had being taken by another reference of the entry copied into.
CitationsRemappedWitness ==
    /\ Merged
    /\ \E i \in DOMAIN mrg.fromE.sources, j \in DOMAIN mrg.destE.sources,
           k \in DOMAIN mrg.result.sources :
           /\ mrg.fromE.sources[i].alias = mrg.destE.sources[j].alias
           /\ mrg.fromE.sources[i].name # mrg.destE.sources[j].name
           /\ mrg.result.sources[k].name = mrg.fromE.sources[i].name
           /\ mrg.result.sources[k].alias # mrg.fromE.sources[i].alias
           /\ \E n \in DOMAIN mrg.fromE.items :
                  /\ mrg.fromE.items[n].key # "alias"
                  /\ mrg.fromE.sources[i].alias
                         \in Range(mrg.fromE.items[n].source)

\* An item of e without a source, or with a citation e has no source for.
BadSource(e) ==
    \E i \in DOMAIN e.items :
        \/ ~e.items[i].sourced
        \/ e.items[i].source = <<>>
        \/ \E sid \in Range(e.items[i].source) :
               \A k \in DOMAIN e.sources : e.sources[k].alias # sid

\* C9: a merge whose entry copied from has an item without a source, or with
\* a citation the entry has no source for, raises and ends the run.
MergeRaisesOnBadSource ==
    (mrg.kind \in {"merged", "raised"} /\ BadSource(mrg.fromE)) =>
        (mrg.kind = "raised" /\ pc = "raised")

\* A merge has raised on a citation the entry copied from has no source for.
MergeRaisesOnBadSourceWitness ==
    /\ pc = "raised"
    /\ mrg.kind = "raised"
    /\ \A i \in DOMAIN mrg.fromE.items : mrg.fromE.items[i].sourced
    /\ BadSource(mrg.fromE)

\* C10 (as stated): when a merge has raised, the files of its two entries are
\* there as they were before the merge, and the run merges no more.
RaisedMergeKeepsFiles ==
    pc = "raised" =>
        /\ \A n \in {mrg.name1, mrg.name2} :
               /\ n \in DOMAIN mrg.files0
               /\ n \in DOMAIN files
               /\ files[n] = mrg.files0[n]
        /\ ~ENABLED MergeInner
        /\ ~ENABLED MergeOuter

\* C12: no two sources of the event have one name or one bibcode; and a call
\* for a name the list has returns the alias of that source and leaves the
\* list as it is, so that what is added for either call cites one source.
CitationsNotDuplicated ==
    /\ \A i, j \in DOMAIN evsources :
           i # j =>
               /\ evsources[i].name # evsources[j].name
               /\ evsources[i].bibcode # ""
                      => evsources[i].bibcode # evsources[j].bibcode
    /\ \A c \in SourceCalls :
           LET ref == IF c.reference = "" THEN c.bibcode ELSE c.reference
               r == get_source(evsources, c.reference, c.url, c.bibcode,
                               c.secondary)
           IN  ref \in Range(SourceNames(evsources)) =>
                   /\ r.sources = evsources
                   /\ \E i \in DOMAIN evsources :
                          /\ evsources[i].name = ref
                          /\ evsources[i].alias = r.ret

\* A call for a source the list has had since before another was added.
CitationsNotDuplicatedWitness ==
    /\ gop = "get_source"
    /\ Len(evsources) >= 2
    /\ gret = evsources[1].alias
    /\ garg.bibcode = evsources[1].name

\* C13: the k-th source of the list has the alias str(k), and a call leaves
\* every source the list has at its place, with its alias.
AliasesAreOneBased ==
    /\ \A k \in DOMAIN evsources : evsources[k].alias = Str(k)
    /\ \A c \in SourceCalls :
           LET r == get_source(evsources, c.reference, c.url, c.bibcode,
                               c.secondary)
           IN  /\ Len(r.sources) >= Len(evsources)
               /\ SubSeq(r.sources, 1, Len(evsources)) = evsources
               /\ \E k \in DOMAIN r.sources : r.sources[k].alias = r.ret

\* The list has three sources, the last call having added the third.
AliasesAreOneBasedWitness ==
    /\ gop = "get_source"
    /\ Len(evsources) = 3
    /\ gret = "3"

\* merge_duplicates has gone through all its keys and returned.
MergeCompleted == pc = "idle" /\ op = "merged"

EveryQuantaHasSource ==
    \A k \in QuantaKinds : \A i \in 1..Len(evquanta[k]) :
        evquanta[k][i].source # <<>>

\* The final pass has derived records from a redshift that a task added.
EveryQuantaHasSourceWitness ==
    /\ qop = "finalize"
    /\ evquanta["hvel"] # <<>>
    /\ evquanta["lumdist"] # <<>>
    /\ Len(evquanta["redshift"]) >= 1
    /\ evquanta["claimedtype"] # <<>>
    /\ EveryQuantaHasSource

\* A record dominates another: a smaller error, an error against none, or
\* without errors more significant digits.
Dominates(a, b) ==
    \/ a.error # "" /\ b.error # "" /\ Float(a.error) < Float(b.error)
    \/ a.error # "" /\ b.error = ""
    \/ /\ a.error = "" /\ b.error = ""
       /\ get_sig_digits(a.value) > get_sig_digits(b.value)

\* C15: for each prefer-better quanta, no retained record is dominated by
\* another retained record of that quanta.
NoRetainedDominated ==
    \A k \in repbetterquanta \cap QuantaKinds :
        \A i, j \in 1..Len(evquanta[k]) :
            ~Dominates(evquanta[k][i], evquanta[k][j])

\* The last step was an add_quanta call that came to the insertion: for a
\* prefer-better quanta, with a value and an error that are accepted.
CandidateCall ==
    /\ qop = "add_quanta"
    /\ qret = Returned
    /\ qarg.quanta \in repbetterquanta
    /\ Strip(qarg.value) \notin {"", "--", "-"}
    /\ is_number(qarg.value)

\* The record the last call offered.
Candidate ==
    [value |-> FormatG(Strip(qarg.value)),
     error |-> FormatG(Strip(qarg.error)),
     source |-> qarg.source]

\* The candidate has an error that is smaller than every error of the
\* records before the call.
SmallestError ==
    /\ Candidate.error # ""
    /\ \A i \in 1..Len(qprev[qarg.quanta]) :
        LET r == qprev[qarg.quanta][i]
        IN  r.error = "" \/ Float(Candidate.error) < Float(r.error)

\* C16: a candidate with an error smaller than that of every record of a
\* prefer-better quanta leaves the candidate as the only record.
SmallestErrorLeavesCandidate ==
    (CandidateCall /\ SmallestError)
        => evquanta[qarg.quanta] = <<Candidate>>

\* The value of the candidate is the value of no record before the call.
NewValue ==
    \A i \in 1..Len(qprev[qarg.quanta]) :
        qprev[qarg.quanta][i].value # Candidate.value

\* C16 for a value that no record has yet.
SmallestErrorNewValueLeavesCandidate ==
    (CandidateCall /\ SmallestError /\ NewValue)
        => evquanta[qarg.quanta] = <<Candidate>>

EqualErrorsBothRetained ==
    (CandidateCall /\ Candidate.error # "" /\ NewValue) =>
        \A i \in 1..Len(qprev[qarg.quanta]) :
            (/\ qprev[qarg.quanta][i].error # ""
             /\ Float(qprev[qarg.quanta][i].error) = Float(Candidate.error))
                => /\ \E j \in 1..Len(evquanta[qarg.quanta]) :
                        evquanta[qarg.quanta][j] = qprev[qarg.quanta][i]
                   /\ \E j \in 1..Len(evquanta[qarg.quanta]) :
                        evquanta[qarg.quanta][j] = Candidate

\* The last step was an add_quanta call with a value and with an error that
\* is not a number or is negative.
MalformedCall ==
    /\ qop = "add_quanta"
    /\ Strip(qarg.value) \notin {"", "--", "-"}
    /\ Strip(qarg.error) # ""
    /\ (~is_number(Strip(qarg.error)) \/ Float(Strip(qarg.error)) < 0)

\* C19 as stated: add_quanta does not raise on a malformed error, and the
\* quanta are as they were.
MalformedErrorDropped ==
    MalformedCall => (qret # Raised /\ evquanta = qprev)

\* C19: add_quanta raises on a malformed error, and the quanta are as they
\* were.
MalformedErrorRaises ==
    MalformedCall => (qret = Raised /\ evquanta = qprev)

\* A malformed error arrives for an event that has a redshift.
MalformedErrorRaisesWitness ==
    /\ MalformedCall
    /\ qarg.error = "abc"
    /\ qret = Raised
    /\ evquanta["redshift"] # <<>>
    /\ evquanta = qprev

\* The last step was an add_quanta call that came to the insertion for a
\* quanta that is not prefer-better.
PlainCall ==
    /\ qop = "add_quanta"
    /\ qret = Returned
    /\ qarg.quanta \notin repbetterquanta
    /\ Strip(qarg.value) \notin {"", "--", "-"}

\* The value the last call offered, as it is stored.
PlainValue ==
    IF qarg.quanta = "claimedtype" THEN typereps(Strip(qarg.value))
    ELSE Strip(qarg.value)

SourceSet(ct) == {ct.source[i] : i \in 1..Len(ct.source)}

\* C20: for a quanta that is not prefer-better, a value that a record has
\* adds the source to the sources of that record and changes nothing else; a
\* value that no record has appends one record.
PlainInsertFrame ==
    PlainCall =>
        LET old == qprev[qarg.quanta]
            new == evquanta[qarg.quanta]
        IN  /\ \A k \in QuantaKinds \ {qarg.quanta} :
                evquanta[k] = qprev[k]
            /\ IF \E i \in 1..Len(old) : old[i].value = PlainValue
               THEN /\ Len(new) = Len(old)
                    /\ \A i \in 1..Len(old) :
                        /\ new[i].value = old[i].value
                        /\ new[i].error = old[i].error
                        /\ IF old[i].value = PlainValue
                           THEN SourceSet(new[i]) = SourceSet(old[i])
                                    \cup Range(qarg.source)
                           ELSE new[i] = old[i]
               ELSE new = Append(old, [value |-> PlainValue, error |-> "",
                                       source |-> qarg.source])

\* 'Ia pec' from source 2 for an event with the types 'Ia' and 'Ia P', the
\* latter from source 1 only.
PlainInsertFrameWitness ==
    /\ PlainCall
    /\ qarg.value = "Ia pec"
    /\ qarg.source = <<"2">>
    /\ Len(qprev["claimedtype"]) = 2
    /\ \E i \in 1..2 :
        /\ qprev["claimedtype"][i].value = "Ia P"
        /\ qprev["claimedtype"][i].source = <<"1">>
        /\ evquanta["claimedtype"][i].source = <<"1", "2">>

\* The next step of merge_duplicates takes the pair (name1, name2) of the
\* inner loop.
PairStep == pc = "inner" /\ inner # <<>>

\* C25: merge_duplicates loads, copies and deletes only for two names that
\* are keys of entries at that moment; a pair with a name that is no key any
\* more is skipped, and the entries, the files and the work list stay as
\* they are.
MembershipRechecked ==
    [][PairStep =>
        LET name1 == keys[n1 + 1]
            name2 == Head(inner)
            both == /\ name1 \in EntryNames(entries)
                    /\ name2 \in EntryNames(entries)
        IN  /\ mrg'.kind \in {"merged", "raised", "gone"} => both
            /\ ~both => /\ mrg'.kind = "skipped"
                        /\ pc' = "inner"
                        /\ entries' = entries
                        /\ files' = files
                        /\ keys' = keys]_vars

\* name1 was copied into an earlier name2 and deleted, and the inner loop
\* has skipped a later name2 that is still a key.
MembershipRecheckedWitness ==
    /\ pc = "inner"
    /\ mrg.kind = "skipped"
    /\ mrg.name1 # mrg.name2
    /\ mrg.name1 \notin EntryNames(entries)
    /\ mrg.name2 \in EntryNames(entries)

\* The entries of E that have `alias` in their list of aliases.
Listing(E, alias) ==
    {E[i].name : i \in {j \in DOMAIN E :
                            alias \in Range(get_aliases(E[j], FALSE))}}

StubbedAreSaved ==
    \A i \in DOMAIN entries : \A j \in DOMAIN entries' :
        (/\ entries[i].name = entries'[j].name
         /\ ~entries[i].stub
         /\ entries'[j].stub)
            => /\ entries[i].name \in DOMAIN files'
               /\ files'[entries[i].name] = DocOf(entries[i])

\* C23 as stated: an entry becomes a stub only in a step that has saved it.
StubOnlyAfterSave == [][StubbedAreSaved]_vars

\* C23: the same when the entries are written to their files.
StubOnlyAfterSaveWritten == [][write_entries => StubbedAreSaved]_vars

\* journal_entries has left the stub of an entry whose file holds more than
\* its aliases.
StubOnlyAfterSaveWrittenWitness ==
    /\ write_entries
    /\ op = "journal"
    /\ \E i \in DOMAIN entries :
        /\ entries[i].stub
        /\ entries[i].name \in DOMAIN files
        /\ files[entries[i].name] # DocOf(entries[i])
        /\ files[entries[i].name].sources # <<>>

\* merge_duplicates is in its loops.
InMerge == pc \in {"outer", "inner"}

\* C30: merge_duplicates comes to its end (it returns, or a ValueError ends
\* the run).  The work list starts as the keys of entries; a pass that merges
\* removes one entry and appends one key, every other pass leaves both
\* counts alone, and an entry is always left: so the keys appended are fewer
\* than the entries the run started with.
MergeTerminates ==
    /\ [][(~InMerge /\ InMerge') => Len(keys') = Len(entries')]_vars
    /\ [][InMerge =>
            IF mrg'.kind = "merged"
            THEN /\ Len(entries') = Len(entries) - 1
                 /\ Len(keys') = Len(keys) + 1
            ELSE /\ Len(entries') = Len(entries)
                 /\ Len(keys') = Len(keys)]_vars
    /\ []((InMerge /\ keys # <<>>) => entries # <<>>)
    /\ (InMerge ~> pc \in {"idle", "raised"})

\* A run that merged twice has returned: the work list got two keys more
\* than the three entries it started with.
MergeTerminatesWitness ==
    /\ MergeCompleted
    /\ Len(keys) = 5
    /\ Len(entries) = 1

SettledAll == settled # <<>> /\ settled[2]

SigDigitsDecide ==
    (CandidateCall /\ NewValue /\ Candidate.error = ""
        /\ qprev[qarg.quanta] # <<>>) =>
        LET old == qprev[qarg.quanta]
            new == evquanta[qarg.quanta]
            newsig == get_sig_digits(Candidate.value)
            In(r) == \E j \in 1..Len(new) : new[j] = r
            plain == {i \in 1..Len(old) : old[i].error = ""}
        IN  /\ \A i \in plain :
                LET sig == get_sig_digits(old[i].value)
                IN  /\ newsig > sig => (~In(old[i]) /\ In(Candidate))
                    /\ newsig < sig => In(old[i])
                    /\ newsig = sig => (In(old[i]) /\ In(Candidate))
            /\ In(Candidate) <=>
                \E i \in plain : newsig >= get_sig_digits(old[i].value)

\* '0.045' without an error for an event with the redshifts '0.04' and
\* '0.05', neither with an error: the two are dropped for the candidate.
SigDigitsDecideWitness ==
    /\ CandidateCall
    /\ Candidate.error = ""
    /\ Candidate.value = "0.045"
    /\ Len(qprev["redshift"]) = 2
    /\ \A i \in 1..2 : /\ qprev["redshift"][i].error = ""
                       /\ get_sig_digits(qprev["redshift"][i].value) = 1
    /\ evquanta["redshift"] = <<Candidate>>


\* C28: after any add_quanta calls, calls with several joined aliases as
\* their source among them, no alias is twice in the source of a record.
SourceIsSet ==
    \A k \in QuantaKinds :
        \A i \in 1..Len(evquanta[k]) :
            LET src == evquanta[k][i].source
            IN  \A m, n \in 1..Len(src) : m # n => src[m] # src[n]

\* The identity of a point: its time unit, band, time, magnitude and error,
\* -1 for no error.
PointId(p) ==
    <<p.timeunit, p.band, Decimal(p.time), Decimal(p.abmag),
      IF p.aberr = "" THEN 0 - 1 ELSE Decimal(p.aberr)>>

\* The last step was an add_photometry call with a time, a magnitude and an
\* error that are accepted.
ValidPoint ==
    /\ qop = "add_photometry"
    /\ is_number(qarg.time)
    /\ is_number(qarg.abmag)
    /\ qarg.aberr = "" \/ is_number(qarg.aberr)

\* No two points of the event have the same identity.
PointsDiffer ==
    \A i, j \in 1..Len(evphot) :
        i # j => PointId(evphot[i]) # PointId(evphot[j])

\* C21 as stated: add_photometry leaves the photometry as it is exactly when
\* a point of the event has the identity of the new point, and appends the
\* point otherwise; no two points of the event have the same identity.
DedupeByIdentity ==
    /\ PointsDiffer
    /\ ValidPoint =>
        IF \E i \in 1..Len(pprev) : PointId(pprev[i]) = PointId(qarg)
        THEN evphot = pprev
        ELSE evphot = Append(pprev, qarg)

\* A point of the event before the call stands for the new point: the same
\* identity, or the same but for an error that the new point does not have.
Covered ==
    \E i \in 1..Len(pprev) :
        \/ PointId(pprev[i]) = PointId(qarg)
        \/ /\ qarg.aberr = ""
           /\ pprev[i].aberr # ""
           /\ PointId([pprev[i] EXCEPT !.aberr = ""]) = PointId(qarg)

\* C21: add_photometry leaves the photometry as it is when the time, the
\* magnitude or the error is not accepted, and for accepted ones exactly
\* when a point of the event has the identity of the new point or differs
\* from it only by having an error where the new point has none; it appends
\* the point otherwise.  No two points of the event have the same identity.
DedupeByIdentityOrError ==
    /\ PointsDiffer
    /\ qop = "add_photometry" =>
        IF ValidPoint /\ ~Covered
        THEN evphot = Append(pprev, qarg)
        ELSE evphot = pprev

\* A point without an error comes for an event that has the point with an
\* error and a second point: the photometry stays as it is.
DedupeByIdentityOrErrorWitness ==
    /\ ValidPoint
    /\ qarg.aberr = ""
    /\ Len(pprev) = 2
    /\ evphot = pprev
    /\ \A i \in 1..Len(pprev) : PointId(pprev[i]) # PointId(qarg)
    /\ \E i \in 1..Len(pprev) :
        /\ pprev[i].aberr # ""
        /\ pprev[i].time # qarg.time
        /\ Decimal(pprev[i].time) = Decimal(qarg.time)
        /\ pprev[i].band = qarg.band


\* C22: a redshift, a velocity, a distance, a 'maxabsmag', a date of
\* discovery or a date or magnitude of the maximum that the event has before
\* the `if dofirstmax:` pass or the final pass is the same after it.
DerivationsKeep ==
    qop \in {"set_first_max_light", "finalize"} =>
        /\ \A k \in {"redshift", "hvel", "lumdist"} :
            qprev[k] # <<>> => evquanta[k] = qprev[k]
        /\ \A k \in AttrKeys : aprev[k] # "" => evattr[k] = aprev[k]

\* The keys of the event that are neither among the first three nor
\* 'photometry' or 'spectra'.
OtherKey(k) ==
    k \notin {"name", "aliases", "sources", "photometry", "spectra"}

\* C24: after the final pass the keys of the event are 'name', 'aliases'
\* and 'sources' first, 'photometry' and 'spectra' last and the other keys
\* between them in alphabetical order.
CanonicalKeys ==
    qop = "finalize" =>
        LET n == Len(evkeys)
            has(k) == k \in Range(evkeys)
        IN  /\ evkeys[1] = "name"
            /\ evkeys[2] = "aliases"
            /\ has("sources") => evkeys[3] = "sources"
            /\ \A i, j \in 1..n :
                (i < j /\ evkeys[i] \in {"photometry", "spectra"})
                    => evkeys[j] \in {"photometry", "spectra"}
            /\ \A i, j \in 1..n :
                (i < j /\ OtherKey(evkeys[j])) =>
                    \/ evkeys[i] \in {"name", "aliases", "sources"}
                    \/ /\ OtherKey(evkeys[i])
                       /\ CodesLess(KeyCodes(evkeys[i]), KeyCodes(evkeys[j]))

\* The final pass has gone over an event with a source, a redshift, a point
\* and a spectrum that came before the source: the dates, the derived
\* velocity, distance and 'maxabsmag' are between the source and the
\* photometry.
CanonicalKeysWitness ==
    /\ qop = "finalize"
    /\ Len(evkeys) >= 9
    /\ evkeys[3] = "sources"
    /\ evkeys[Len(evkeys) - 1] = "spectra"
    /\ evkeys[Len(evkeys)] = "photometry"
    /\ {"hvel", "lumdist", "maxabsmag", "redshift", "discoveryear",
        "maxappmag"} \subseteq Range(evkeys)

====
